---- MODULE Spec2Model ----
(***************************************************************************)
(* A model of the asyncho echo service (src/src/service.rs) and its line   *)
(* codec (src/src/lines.rs).                                               *)
(*                                                                         *)
(* The service is a single-threaded tokio-core reactor.  Every task        *)
(* (acceptor, per-connection frame handler, per-frame send future) runs on *)
(* that one thread and talks to the event loop only through one unbounded  *)
(* FIFO channel of Msg values; Service::handle_message is the only code    *)
(* that touches the connection map.  Each action below is one atomic poll  *)
(* step of one task.                                                       *)
(***************************************************************************)
EXTENDS Integers, Sequences, FiniteSets, TLC

\* ---------------------------------------------------------------- bounds
\* Number of inputs the network delivers in a run: sockets accepted plus
\* lines the peers put on the wire, all connections together.
MaxInputs == 4
\* Number of listeners started.
MaxListeners == 2
\* Number of direct calls of handle_message with an event for a removed id.
MaxInject == 1
\* bytes a codec run encodes, delimiters included
MaxBytes == 7

\* The newline delimiter b'\n' of the codec.
NL == 10

\* Connection ids that can be assigned within the bounds.
Ids == 0 .. (MaxInputs - 1)

\* The lines a peer may put on the wire (without the delimiter) as the k-th
\* line of a run: a one-letter text ("a", "b", ...: the service never looks
\* into a frame, and distinct payloads make the order of frames observable),
\* or the invalid two-octet sequence \xc3\x28 of the codec's own test.
WireLines(k) == { << 97 + k >>, << 195, 40 >> }

VARIABLES
    conns,        \* Service.conns: id -> [queue, frame_tx]
    conn_count,   \* Service.conn_count
    chan,         \* the unbounded mpsc channel msg_tx/msg_rx, FIFO
    panicked,     \* an unwrap() on None was executed in the loop
    acceptors,    \* accept_handler tasks still running on the reactor
    accepted,     \* sockets accepted so far
    actor,        \* id -> state of the frame_handler task
    tx_tasks,     \* id -> frames of the send_frame futures still running
    received,     \* history: id -> frames of the NewFrame events dispatched
    started,      \* history: id -> frames handed to send_frame, in order
    emitted,      \* history: id -> event types the frame_handler posted
    ids_assigned, \* history: the ids spawn_connection assigned, in order,
                  \* each with the ids that were in the map at that time
    lost,         \* history: ids whose ConnectionLost has been dispatched
    discarded,    \* history: id -> queue dropped with the record
    send_failed,  \* history: ids on which a send future failed
    stale,        \* history: events dispatched for an id already in lost
    injected,     \* direct calls of handle_message for a removed id so far
    wire_lines,   \* lines the peers have put on the wire so far
    running,      \* Service::run has been entered: the reactor is turning
    produced,     \* history: id -> frames the frame_handler posted, in order
    wbuf,         \* codec: the BytesMut an encoder writes into
    rbuf,         \* codec: the BytesMut a decoder reads from
    encoded,      \* codec history: the frames encoded, in order
    decoded,      \* codec history: the frames decode returned, in order
    last,         \* codec history: the last decode call and its result
    waited        \* codec history: decode has seen the bytes now in rbuf
                  \* without finding a frame in them

vars == << conns, conn_count, chan, panicked, acceptors, accepted,
           actor, tx_tasks, received, started, emitted, ids_assigned, lost,
           discarded, send_failed, stale, injected, wire_lines, running,
           produced, wbuf, rbuf, encoded, decoded, last, waited >>

\* The variables of the service and its tasks.
service == << conns, conn_count, chan, panicked, acceptors, accepted, actor,
              tx_tasks, received, started, emitted, ids_assigned, lost,
              discarded, send_failed, stale, injected, wire_lines, running,
              produced >>

\* The variables of the codec on its own.
codec == << wbuf, rbuf, encoded, decoded, last, waited >>

\* ------------------------------------------------------------- the codec

\* Index of the first element of s equal to b, or 0 when there is none.
RECURSIVE PositionFrom(_, _, _)
PositionFrom(s, b, i) ==
    IF i > Len(s) THEN 0
    ELSE IF s[i] = b THEN i
    ELSE PositionFrom(s, b, i + 1)

Position(s, b) == PositionFrom(s, b, 1)

IsCont(b) == b >= 128 /\ b <= 191

\* str::from_utf8 on a byte sequence: well-formed UTF-8 only.
RECURSIVE IsUtf8(_)
IsUtf8(s) ==
    IF s = <<>> THEN TRUE
    ELSE LET b == s[1]
             n == Len(s)
         IN  IF b < 128 THEN IsUtf8(SubSeq(s, 2, n))
             ELSE IF b >= 194 /\ b <= 223
                  THEN n >= 2 /\ IsCont(s[2]) /\ IsUtf8(SubSeq(s, 3, n))
             ELSE IF b >= 224 /\ b <= 239
                  THEN /\ n >= 3
                       /\ IsCont(s[2]) /\ IsCont(s[3])
                       /\ (b = 224 => s[2] >= 160)
                       /\ (b = 237 => s[2] <= 159)
                       /\ IsUtf8(SubSeq(s, 4, n))
             ELSE IF b >= 240 /\ b <= 244
                  THEN /\ n >= 4
                       /\ IsCont(s[2]) /\ IsCont(s[3]) /\ IsCont(s[4])
                       /\ (b = 240 => s[2] >= 144)
                       /\ (b = 244 => s[2] <= 143)
                       /\ IsUtf8(SubSeq(s, 5, n))
             ELSE FALSE

\* A mutant: the delimiter is left out.
Encode_bare(msg, buf) == buf \o msg

\* LineCodec::encode: the buffer after appending the frame and a newline.
Encode(msg, buf) == buf \o msg \o <<NL>>

\* A mutant: the bytes of an unfinished line are consumed.
Decode_drain(buf) ==
    LET n == Position(buf, NL)
    IN  IF n # 0
        THEN [res |-> "Some", frame |-> SubSeq(buf, 1, n - 1),
              buf |-> SubSeq(buf, n + 1, Len(buf))]
        ELSE [res |-> "None", frame |-> << >>, buf |-> << >>]

\* LineCodec::decode: the result and the buffer it leaves behind.
\* res is "Some" (a frame), "None" (no frame yet) or "Err".
Decode(buf) ==
    LET n == Position(buf, NL)
    IN  IF n # 0
        THEN LET line == SubSeq(buf, 1, n - 1)
                 rest == SubSeq(buf, n + 1, Len(buf))
             IN  IF IsUtf8(line)
                 THEN [res |-> "Some", frame |-> line, buf |-> rest]
                 ELSE [res |-> "Err", frame |-> <<>>, buf |-> rest]
        ELSE [res |-> "None", frame |-> <<>>, buf |-> buf]

\* ------------------------------------------------------------ the service

\* A mutant: the record starts without its sender.
ConnNew_busy == [queue |-> << >>, frame_tx |-> "None"]

\* Conn::new
ConnNew == [queue |-> <<>>, frame_tx |-> "Some"]

\* Service::new
Init ==
    /\ conns = << >>
    /\ conn_count = 0
    /\ chan = << >>
    /\ panicked = FALSE
    /\ acceptors = 0
    /\ accepted = 0
    /\ actor = [c \in Ids |-> "none"]
    /\ tx_tasks = [c \in Ids |-> << >>]
    /\ received = [c \in Ids |-> << >>]
    /\ started = [c \in Ids |-> << >>]
    /\ emitted = [c \in Ids |-> << >>]
    /\ ids_assigned = << >>
    /\ lost = {}
    /\ discarded = [c \in Ids |-> << >>]
    /\ send_failed = {}
    /\ stale = {}
    /\ injected = 0
    /\ wire_lines = 0
    /\ running = FALSE
    /\ produced = [c \in Ids |-> << >>]
    /\ wbuf = << >>
    /\ rbuf = << >>
    /\ encoded = << >>
    /\ decoded = << >>
    /\ last = [res |-> "-", frame |-> << >>, split |-> FALSE]
    /\ waited = FALSE

\* A mutant: the channel hands out the newest message first.
SendMsg_front(msg) == chan' = << msg >> \o chan

\* send_msg: the channel after posting msg.
SendMsg(msg) == chan' = Append(chan, msg)

\* The Msg enum.
MsgNewConnection(sock) == [type |-> "NewConnection", conn |-> sock]
MsgConnectionLost(id) == [type |-> "ConnectionLost", conn_id |-> id]
MsgNewFrame(id, f) == [type |-> "NewFrame", conn_id |-> id, frame |-> f]
MsgFrameTxComplete(id) == [type |-> "FrameTxComplete", conn_id |-> id]

\* s without its i-th element.
RemoveAt(s, i) == SubSeq(s, 1, i - 1) \o SubSeq(s, i + 1, Len(s))

\* ---- Service::start_listener and the accept_handler task

\* start_listener: bind either fails (the call returns the error and spawns
\* nothing) or succeeds and spawns one accept_handler.  It borrows the
\* Service, which run() holds mutably until it returns, so every call
\* precedes run().
StartListener ==
    /\ ~running
    /\ acceptors < MaxListeners
    /\ \E bound \in BOOLEAN :
          acceptors' = IF bound THEN acceptors + 1 ELSE acceptors
    /\ UNCHANGED << conns, conn_count, chan, panicked, accepted, actor,
                    tx_tasks, received, started, emitted, ids_assigned, lost,
                    discarded, send_failed, stale, injected, wire_lines,
                    running >>
    /\ UNCHANGED << produced, codec >>

\* Service::run: takes the receiver and turns the reactor on rx.for_each;
\* the tasks spawned on the handle are polled from here on.
Run ==
    /\ ~running
    /\ running' = TRUE
    /\ UNCHANGED << conns, conn_count, chan, panicked, acceptors,
                    accepted, actor, tx_tasks, received, started, emitted,
                    ids_assigned, lost, discarded, send_failed, stale,
                    injected, wire_lines >>
    /\ UNCHANGED << produced, codec >>

\* accept_handler: incoming() yields a socket; a NewConnection is posted.
Accept ==
    /\ running
    /\ acceptors > 0
    /\ accepted + wire_lines < MaxInputs
    /\ accepted' = accepted + 1
    /\ SendMsg(MsgNewConnection(accepted))
    /\ UNCHANGED << conns, conn_count, panicked, acceptors, actor,
                    tx_tasks, received, started, emitted, ids_assigned, lost,
                    discarded, send_failed, stale, injected, wire_lines,
                    running >>
    /\ UNCHANGED << produced, codec >>

\* accept_handler: incoming() yields an error; for_each resolves with it,
\* map_err erases it and the task is finished.
AcceptError ==
    /\ running
    /\ acceptors > 0
    /\ acceptors' = acceptors - 1
    /\ UNCHANGED << conns, conn_count, chan, panicked, accepted, actor,
                    tx_tasks, received, started, emitted, ids_assigned, lost,
                    discarded, send_failed, stale, injected, wire_lines,
                    running >>
    /\ UNCHANGED << produced, codec >>

\* ---- the frame_handler task of spawn_connection (the connection actor)

\* The peer's next line arrives whole; the framed stream decodes it.  A frame
\* is posted as NewFrame; a decode error ends for_each with Err, so the
\* and_then closure is skipped and the task finishes without posting.
ActorRecv(c, line) ==
    /\ actor[c] = "reading"
    /\ accepted + wire_lines < MaxInputs
    /\ wire_lines' = wire_lines + 1
    /\ LET r == Decode(Encode(line, << >>))
       IN  IF r.res = "Some"
           THEN /\ SendMsg(MsgNewFrame(c, r.frame))
                /\ emitted' = [emitted EXCEPT ![c] = Append(@, "NewFrame")]
                /\ produced' = [produced EXCEPT ![c] = Append(@, r.frame)]
                /\ UNCHANGED actor
           ELSE /\ actor' = [actor EXCEPT ![c] = "failed"]
                /\ UNCHANGED << chan, emitted, produced >>
    /\ UNCHANGED << conns, conn_count, panicked, acceptors, accepted,
                    tx_tasks, received, started, ids_assigned, lost,
                    discarded, send_failed, stale, injected,
                    running >>
    /\ UNCHANGED codec

\* A mutant: the task goes on reading after it posted ConnectionLost.
Finished_reading(c) == actor

\* The frame_handler future has resolved: the task is finished.
Finished(c) == [actor EXCEPT ![c] = "closed"]

\* The stream ends cleanly: for_each resolves Ok and the and_then closure
\* posts ConnectionLost; the task is finished.
ActorClose(c) ==
    /\ actor[c] = "reading"
    /\ actor' = Finished(c)
    /\ SendMsg(MsgConnectionLost(c))
    /\ emitted' = [emitted EXCEPT ![c] = Append(@, "ConnectionLost")]
    /\ UNCHANGED << conns, conn_count, panicked, acceptors, accepted,
                    tx_tasks, received, started, ids_assigned, lost,
                    discarded, send_failed, stale, injected, wire_lines,
                    running >>
    /\ UNCHANGED << produced, codec >>

\* The socket read fails: the stream yields Err, for_each resolves with it,
\* the and_then closure is skipped, map_err erases the error.
ActorIoError(c) ==
    /\ actor[c] = "reading"
    /\ actor' = [actor EXCEPT ![c] = "failed"]
    /\ UNCHANGED << conns, conn_count, chan, panicked, acceptors,
                    accepted, tx_tasks, received, started, emitted,
                    ids_assigned, lost, discarded, send_failed, stale,
                    injected, wire_lines, running >>
    /\ UNCHANGED << produced, codec >>

\* ---- send_frame and the future it spawns

\* send_frame: spawns the future that owns the sender and writes the frame.
SendFrame(id, frame) ==
    /\ tx_tasks' = [tx_tasks EXCEPT ![id] = Append(@, frame)]
    /\ started' = [started EXCEPT ![id] = Append(@, frame)]

\* The write succeeds: the and_then closure posts FrameTxComplete with the
\* sender it got back.
SendOk(c) ==
    /\ \E i \in DOMAIN tx_tasks[c] :
          tx_tasks' = [tx_tasks EXCEPT ![c] = RemoveAt(@, i)]
    /\ SendMsg(MsgFrameTxComplete(c))
    /\ UNCHANGED << conns, conn_count, panicked, acceptors, accepted,
                    actor, received, started, emitted, ids_assigned, lost,
                    discarded, send_failed, stale, injected, wire_lines,
                    running >>
    /\ UNCHANGED << produced, codec >>

\* The write fails: the and_then closure is skipped, map_err erases the
\* error and the future finishes, dropping the sender.  Nothing is posted.
SendFail(c) ==
    /\ \E i \in DOMAIN tx_tasks[c] :
          tx_tasks' = [tx_tasks EXCEPT ![c] = RemoveAt(@, i)]
    /\ send_failed' = send_failed \cup {c}
    /\ UNCHANGED << conns, conn_count, chan, panicked, acceptors,
                    accepted, actor, received, started, emitted,
                    ids_assigned, lost, discarded, stale, injected, wire_lines,
                    running >>
    /\ UNCHANGED << produced, codec >>

\* ---- Service::handle_message and Service::spawn_connection

\* Records that the event being handled names an id already lost.
NoteStale(type, id) ==
    stale' = IF id \in lost THEN stale \cup {<< type, id >>} ELSE stale

\* A mutant: the id is taken from the size of the map, not from the counter.
NextConnId_len == Cardinality(DOMAIN conns)

\* spawn_connection: let conn_id = self.conn_count
NextConnId == conn_count

\* spawn_connection: the id is assigned, the frame_handler spawned and the
\* record inserted (BTreeMap::insert replaces a record of the same id).
SpawnConnection ==
    LET conn_id == NextConnId
    IN  /\ conn_count' = conn_count + 1
        /\ ids_assigned' = Append(ids_assigned,
                                  [id |-> conn_id, live |-> DOMAIN conns])
        /\ actor' = [actor EXCEPT ![conn_id] = "reading"]
        /\ conns' = [c \in DOMAIN conns \cup {conn_id} |->
                        IF c = conn_id THEN ConnNew ELSE conns[c]]

\* handle_message, the Msg::NewConnection arm
HandleNewConnection(msg) ==
    /\ SpawnConnection
    /\ UNCHANGED << panicked, tx_tasks, received, started, lost, discarded,
                    stale >>

\* A mutant: the record is kept (only the event is consumed).
RemoveConn_keep(id) == conns

\* self.conns.remove(&conn_id): the map without id.
RemoveConn(id) == [c \in DOMAIN conns \ {id} |-> conns[c]]

\* handle_message, the Msg::ConnectionLost arm
HandleConnectionLost(msg) ==
    /\ LET id == msg.conn_id
       IN  /\ conns' = RemoveConn(id)
           /\ lost' = lost \cup {id}
           /\ discarded' = IF id \in DOMAIN conns
                           THEN [discarded EXCEPT ![id] = conns[id].queue]
                           ELSE discarded
           /\ NoteStale("ConnectionLost", id)
    /\ UNCHANGED << conn_count, panicked, actor, tx_tasks, received, started,
                    ids_assigned >>

\* A mutant: the sender is used but left in the slot.
TakeSender_keep(conn) == conn

\* replace(&mut conn.frame_tx, None): the record after the sender is taken.
TakeSender(conn) == [conn EXCEPT !.frame_tx = "None"]

\* A mutant: the frame is queued at the front.
PushBack_front(queue, frame) == << frame >> \o queue

\* conn.queue.push_back(frame)
PushBack(queue, frame) == Append(queue, frame)

\* A mutant: the slot is taken without looking whether it is empty.
FrameTxIsNone_never(conn) == FALSE

\* conn.frame_tx.is_none()
FrameTxIsNone(conn) == conn.frame_tx = "None"

\* handle_message, the Msg::NewFrame arm
HandleNewFrame(msg) ==
    /\ LET id == msg.conn_id
           frame == msg.frame
       IN  /\ received' = [received EXCEPT ![id] = Append(@, frame)]
           /\ NoteStale("NewFrame", id)
           /\ IF id \in DOMAIN conns
              THEN IF FrameTxIsNone(conns[id])
                   THEN /\ conns' = [conns EXCEPT ![id].queue =
                                        PushBack(@, frame)]
                        /\ UNCHANGED << tx_tasks, started, panicked >>
                   ELSE \* replace(..).unwrap() panics on None
                        LET tx == conns[id].frame_tx
                        IN  /\ conns' = [conns EXCEPT ![id] = TakeSender(@)]
                            /\ panicked' = (tx = "None")
                            /\ IF tx = "None"
                               THEN UNCHANGED << tx_tasks, started >>
                               ELSE SendFrame(id, frame)
              ELSE UNCHANGED << conns, tx_tasks, started, panicked >>
    /\ UNCHANGED << conn_count, actor, ids_assigned, lost, discarded >>

\* A mutant: the sender goes back to the slot although frames are queued.
QueueEmpty_always(queue) == TRUE

\* conn.queue.pop_front() returns None
QueueEmpty(queue) == queue = << >>

\* handle_message, the Msg::FrameTxComplete arm
HandleFrameTxComplete(msg) ==
    /\ LET id == msg.conn_id
       IN  /\ NoteStale("FrameTxComplete", id)
           /\ IF id \in DOMAIN conns
              THEN IF QueueEmpty(conns[id].queue)
                   THEN /\ conns' = [conns EXCEPT ![id].frame_tx = "Some"]
                        /\ UNCHANGED << tx_tasks, started >>
                   ELSE /\ conns' = [conns EXCEPT ![id].queue = Tail(@)]
                        /\ SendFrame(id, Head(conns[id].queue))
              ELSE UNCHANGED << conns, tx_tasks, started >>
    /\ UNCHANGED << conn_count, panicked, actor, received, ids_assigned, lost,
                    discarded >>

\* One turn of rx.for_each in Service::run: the next event is taken from the
\* channel.  A panic in the handler has unwound the loop.
Take(type) ==
    /\ running /\ ~panicked
    /\ chan # << >>
    /\ Head(chan).type = type
    /\ chan' = Tail(chan)
    /\ UNCHANGED << acceptors, accepted, emitted, send_failed, injected,
                    wire_lines, running >>
    /\ UNCHANGED << produced, codec >>

\* The loop dispatches a NewConnection.
NewConnection == Take("NewConnection") /\ HandleNewConnection(Head(chan))

\* The loop dispatches a ConnectionLost.
ConnectionLost == Take("ConnectionLost") /\ HandleConnectionLost(Head(chan))

\* The loop dispatches a NewFrame.
NewFrame == Take("NewFrame") /\ HandleNewFrame(Head(chan))

\* The loop dispatches a FrameTxComplete.
FrameTxComplete ==
    Take("FrameTxComplete") /\ HandleFrameTxComplete(Head(chan))

\* One turn of the event loop: rx.for_each(|msg| self.handle_message(msg)).
Dispatch == NewConnection \/ ConnectionLost \/ NewFrame \/ FrameTxComplete

\* ---- the system

Next ==
    \/ StartListener
    \/ Run
    \/ Accept
    \/ AcceptError
    \/ \E c \in Ids, line \in WireLines(wire_lines) : ActorRecv(c, line)
    \/ \E c \in Ids : ActorClose(c)
    \/ \E c \in Ids : ActorIoError(c)
    \/ \E c \in Ids : SendOk(c)
    \/ \E c \in Ids : SendFail(c)
    \/ NewConnection
    \/ ConnectionLost
    \/ NewFrame
    \/ FrameTxComplete

Spec == Init /\ [][Next]_vars

\* A task the reactor can poll to completion: the event loop with an event
\* waiting, or a send future whose write has finished.
Poll == Dispatch \/ \E c \in Ids : SendOk(c) \/ SendFail(c)

\* The reactor keeps turning: while some task is ready, one is polled.  (The
\* reactor is fair to every task; this assumes less, only that it does not
\* stop while work is ready.)
LiveSpec == Spec /\ WF_vars(Poll)

\* ---- handle_message called with events no task of the service posts

\* handle_message is called with an event for an id whose ConnectionLost
\* has been dispatched before (the actor posts nothing after its
\* ConnectionLost, so the channel never carries a NewFrame or a second
\* ConnectionLost for such an id).
CallStale(id) ==
    /\ running /\ ~panicked
    /\ injected < MaxInject
    /\ id \in lost
    /\ injected' = injected + 1
    /\ UNCHANGED << chan, acceptors, accepted, emitted, send_failed,
                    wire_lines, running >>
    /\ UNCHANGED << produced, codec >>

\* A NewFrame for an id already lost; the frame is "z".
StaleNewFrame(id) ==
    CallStale(id) /\ HandleNewFrame(MsgNewFrame(id, << 122 >>))

\* A second ConnectionLost for an id already lost.
StaleConnectionLost(id) ==
    CallStale(id) /\ HandleConnectionLost(MsgConnectionLost(id))

NextStale ==
    \/ Next
    \/ \E id \in Ids : StaleNewFrame(id)
    \/ \E id \in Ids : StaleConnectionLost(id)

SpecStale == Init /\ [][NextStale]_vars

\* ---- the codec on its own: frames are encoded into one buffer, the bytes
\* ---- reach the decoder's buffer in pieces, and decode is called on it

\* The characters frames are made of, as UTF-8: "a" and "e" with an acute.
Chars == { << 97 >>, << 195, 169 >> }

\* The String values of at most n bytes: valid UTF-8 without a newline.
RECURSIVE Texts(_)
Texts(n) ==
    { << >> } \cup
    UNION { { ch \o t : t \in Texts(n - Len(ch)) } :
            ch \in { x \in Chars : Len(x) <= n } }

\* The bytes the frames take once encoded.
RECURSIVE EncodedLen(_)
EncodedLen(frames) ==
    IF frames = << >> THEN 0
    ELSE Len(Head(frames)) + 1 + EncodedLen(Tail(frames))

\* codec.encode(frame, &mut buf)
CodecEncode(frame) ==
    /\ EncodedLen(encoded) + Len(frame) + 1 <= MaxBytes
    /\ wbuf' = Encode(frame, wbuf)
    /\ encoded' = Append(encoded, frame)
    /\ UNCHANGED << rbuf, decoded, last, waited >>
    /\ UNCHANGED service

\* buf.put(..): the next n bytes written arrive in the decoder's buffer.
Put(n) ==
    /\ n <= Len(wbuf)
    /\ rbuf' = rbuf \o SubSeq(wbuf, 1, n)
    /\ wbuf' = SubSeq(wbuf, n + 1, Len(wbuf))
    /\ UNCHANGED << encoded, decoded, last, waited >>
    /\ UNCHANGED service

\* codec.decode(&mut buf)
CodecDecode ==
    /\ LET r == Decode(rbuf)
       IN  /\ rbuf' = r.buf
           /\ last' = [res |-> r.res, frame |-> r.frame,
                       split |-> (r.res = "Some" /\ waited)]
           /\ decoded' = IF r.res = "Some" THEN Append(decoded, r.frame)
                                           ELSE decoded
           /\ waited' = (r.res = "None" /\ rbuf # << >>)
    /\ UNCHANGED << wbuf, encoded >>
    /\ UNCHANGED service

NextCodec ==
    \/ \E frame \in Texts(MaxBytes - 1) : CodecEncode(frame)
    \/ \E n \in 1 .. MaxBytes : Put(n)
    \/ CodecDecode

SpecCodec == Init /\ [][NextCodec]_vars

\* ------------------------------------------------------------ properties

\* s is a prefix of t.
IsPrefix(s, t) == Len(s) <= Len(t) /\ s = SubSeq(t, 1, Len(s))

\* The step is a turn of the event loop dispatching an event of this type.
Dispatching(type) ==
    chan # << >> /\ chan' = Tail(chan) /\ Head(chan).type = type

\* The step handles an event for an id already lost: the loop dispatches
\* one from the channel, or handle_message is called with one.
HandlingStale ==
    \/ injected' # injected
    \/ /\ chan # << >> /\ chan' = Tail(chan)
       /\ Head(chan).type # "NewConnection"
       /\ Head(chan).conn_id \in lost

\* C1: on every connection at most one send future is outstanding at any
\* time: no send is started while an earlier one has not completed.
AtMostOneInFlight == \A c \in Ids : Len(tx_tasks[c]) <= 1

\* A send is outstanding and a frame that arrived meanwhile is queued.
AtMostOneInFlightWitness ==
    \E c \in DOMAIN conns :
        Len(tx_tasks[c]) = 1 /\ conns[c].queue # << >>

\* C2: the frames whose send has been started are, in order, a prefix of
\* the frames the loop received in NewFrame events for that connection.
PerConnectionFifo == \A c \in Ids : IsPrefix(started[c], received[c])

\* Three frames arrived, two were queued, and the first of the queue has
\* been sent after the in-flight one completed.
PerConnectionFifoWitness ==
    \E c \in DOMAIN conns :
        /\ Len(received[c]) = 3
        /\ Len(started[c]) = 2
        /\ Len(conns[c].queue) = 1

\* C3: under fair scheduling, the k-th frame received for a connection is
\* eventually the k-th frame whose send is started, unless the connection
\* leaves the map or one of its sends fails.  received[c] only grows, so
\* "always eventually (not yet received, or started, or excused)" says that
\* receiving the k-th frame leads to its send.  (Connection c exists after
\* c + 1 sockets were accepted, so it receives at most MaxInputs - 1 - c
\* frames.)
EventualDelivery ==
    \A c \in Ids : \A k \in 1 .. (MaxInputs - 1 - c) :
        []<>( \/ Len(received[c]) < k
              \/ Len(started[c]) >= k /\ started[c][k] = received[c][k]
              \/ c \notin DOMAIN conns
              \/ c \in send_failed )

\* A frame that had to wait in the queue has had its send started, on a
\* connection still in the map with no failed send.
EventualDeliveryWitness ==
    \E c \in DOMAIN conns :
        /\ c \notin send_failed
        /\ Len(started[c]) >= 2
        /\ started[c] = received[c]
        /\ conns[c].frame_tx = "Some"

\* C4: once a send on a connection has failed, the connection's record is
\* gone from the map, or the ConnectionLost that removes it is waiting in
\* the channel.
SendErrorTerminates ==
    \A c \in send_failed :
        c \in DOMAIN conns =>
            \E i \in DOMAIN chan : chan[i] = MsgConnectionLost(c)

\* C5: an actor whose stream has ended, cleanly or by an error, has posted
\* ConnectionLost for its connection.
StreamEndReported ==
    \A c \in Ids :
        actor[c] \in {"closed", "failed"} =>
            \E i \in DOMAIN emitted[c] : emitted[c][i] = "ConnectionLost"

\* C6: dispatching NewFrame, FrameTxComplete or ConnectionLost for an id
\* whose ConnectionLost has already been dispatched leaves the map as it
\* is, starts no send and does not panic.
RemovalIdempotent ==
    [][ HandlingStale =>
            /\ conns' = conns
            /\ tx_tasks' = tx_tasks
            /\ started' = started
            /\ ~panicked' ]_vars

\* A removed id has seen the FrameTxComplete of its last send and a late
\* NewFrame.
RemovalIdempotentWitness ==
    \E id \in lost :
        { << "NewFrame", id >>, << "FrameTxComplete", id >> } \subseteq stale

\* C7: once ConnectionLost has been dispatched for an id, no send is
\* started for it any more, so the frames queued at that time are never
\* sent, also not when the FrameTxComplete of the in-flight send arrives.
TeardownDiscardsQueue ==
    [][ \A id \in lost :
            /\ started'[id] = started[id]
            /\ IsPrefix(tx_tasks'[id], tx_tasks[id]) ]_vars

\* A record was removed with frames queued, and the FrameTxComplete of the
\* send that was in flight has been dispatched afterwards.
TeardownDiscardsQueueWitness ==
    \E id \in lost :
        /\ discarded[id] # << >>
        /\ << "FrameTxComplete", id >> \in stale

\* C8: the map holds a record for exactly the ids assigned to a dispatched
\* NewConnection and not yet named by a dispatched ConnectionLost; a record
\* appears only when NewConnection is dispatched, idle and with an empty
\* queue, and disappears only when ConnectionLost for its id is dispatched,
\* which happens once per id.
RecordLifecycle ==
    /\ [](DOMAIN conns =
            { ids_assigned[i].id : i \in DOMAIN ids_assigned } \ lost)
    /\ [][ /\ \A id \in DOMAIN conns' \ DOMAIN conns :
                /\ Dispatching("NewConnection")
                /\ conns'[id] = [queue |-> << >>, frame_tx |-> "Some"]
           /\ \A id \in DOMAIN conns \ DOMAIN conns' :
                /\ Dispatching("ConnectionLost")
                /\ Head(chan).conn_id = id
                /\ id \notin lost ]_vars

\* One connection has been removed while another one is in the map.
RecordLifecycleWitness ==
    \E a \in lost : \E b \in DOMAIN conns : a # b

\* C9: the i-th connection gets id i - 1: ids start at 0, grow by one and
\* are never assigned twice.
IdsNeverReused ==
    \A i \in DOMAIN ids_assigned : ids_assigned[i].id = i - 1

\* An id was assigned after an earlier connection had been removed, with
\* two listeners feeding the channel.
IdsNeverReusedWitness ==
    /\ acceptors = 2
    /\ \E i \in DOMAIN ids_assigned :
          ids_assigned[i].live # 0 .. (i - 2)

\* C10: an actor posts ConnectionLost at most once, and it is the last
\* event the actor posts.
ConnectionLostIsLast ==
    \A c \in Ids :
        \A i \in DOMAIN emitted[c] :
            emitted[c][i] = "ConnectionLost" => i = Len(emitted[c])

\* An actor has posted frames and then its ConnectionLost, which the loop
\* has dispatched.
ConnectionLostIsLastWitness ==
    \E c \in lost :
        /\ actor[c] = "closed"
        /\ Len(emitted[c]) >= 3

\* C11. Dispatch never fails: whatever event handle_message is given, for a
\* live id or for a removed one, it returns Ok(()) without panicking, so the
\* loop is still running and can take the next event waiting in the channel.
DispatchNeverFails ==
    /\ ~panicked
    /\ (running /\ chan # << >>) => ENABLED Dispatch

\* Witness: the handler has been given a NewFrame for a live connection and
\* then a FrameTxComplete and a second ConnectionLost for that id after it
\* had removed the record, and it is still running.
DispatchNeverFailsWitness ==
    /\ running /\ ~panicked
    /\ \E id \in lost : /\ received[id] # << >>
                        /\ << "ConnectionLost", id >> \in stale
                        /\ << "FrameTxComplete", id >> \in stale

\* C12. The acceptor survives accept errors: no step, an accept error
\* included, ends an accept_handler task, so the number of acceptors that
\* can still post NewConnection never goes down.
AcceptorSurvives == [][acceptors' >= acceptors]_vars

\* The bytes the frames are on the wire: each followed by a newline.
RECURSIVE Wire(_)
Wire(frames) ==
    IF frames = << >> THEN << >>
    ELSE Head(frames) \o << NL >> \o Wire(Tail(frames))

\* The step is a call of decode.
DecodeCalled ==
    /\ wbuf' = wbuf /\ encoded' = encoded
    /\ << rbuf, decoded, last, waited >>' # << rbuf, decoded, last, waited >>

\* C13. Codec round trip: decoding the buffer encode made of a frame returns
\* that frame and leaves the buffer empty; and of several frames encoded into
\* one buffer, decode returns one at a time, in order, without error, the
\* buffers holding exactly the frames not yet returned.
CodecRoundTrip ==
    /\ \A i \in 1 .. Len(encoded) :
          Decode(Encode(encoded[i], << >>)) =
              [res |-> "Some", frame |-> encoded[i], buf |-> << >>]
    /\ last.res # "Err"
    /\ IsPrefix(decoded, encoded)
    /\ rbuf \o wbuf = Wire(SubSeq(encoded, Len(decoded) + 1, Len(encoded)))

\* Witness: several frames, the empty one and one of two code points among
\* them, were encoded and all of them decoded; the buffers are empty.
CodecRoundTripWitness ==
    /\ Len(encoded) >= 2 /\ decoded = encoded
    /\ rbuf = << >> /\ wbuf = << >>
    /\ \E i, j \in 1 .. Len(encoded) :
          encoded[i] = << >> /\ Len(encoded[j]) >= 2

\* C14. Partial frames: a call of decode on a buffer without a newline
\* returns None and leaves the buffer as it is; a call on a buffer with one
\* returns exactly the next frame that was encoded and leaves the bytes
\* after that newline in the buffer.
PartialFrameDecoding ==
    [][DecodeCalled =>
          IF Position(rbuf, NL) = 0
          THEN last'.res = "None" /\ rbuf' = rbuf /\ decoded' = decoded
          ELSE /\ last'.res = "Some"
               /\ last'.frame = encoded[Len(decoded) + 1]
               /\ decoded' = Append(decoded, last'.frame)
               /\ rbuf = last'.frame \o << NL >> \o rbuf']_vars

\* Witness: decode returned None on the first bytes of a frame, then the
\* frame once the rest had arrived, and bytes of the next frame are left.
PartialFrameDecodingWitness ==
    /\ last.res = "Some" /\ last.split
    /\ Len(last.frame) >= 2
    /\ rbuf # << >> /\ Position(rbuf, NL) = 0

\* C15. Burst then drain: a NewFrame for an idle connection starts the send
\* of its frame and empties the slot; a NewFrame while the slot is empty
\* appends the frame to the queue, so the frames of a burst that were not
\* sent wait in arrival order; a FrameTxComplete with frames queued starts
\* the send of the queue head and the slot stays empty; a FrameTxComplete
\* with nothing queued, when every frame that arrived has been sent, puts
\* the sender back with the queue empty.
BurstThenDrain ==
    /\ [](\A c \in DOMAIN conns : received[c] = started[c] \o conns[c].queue)
    /\ [][\A id \in DOMAIN conns :
            LET m == Head(chan)
                old == conns[id]
                new == conns'[id]
            IN  /\ (Dispatching("NewFrame") /\ m.conn_id = id) =>
                      IF old.frame_tx = "Some"
                      THEN /\ new = [queue |-> old.queue, frame_tx |-> "None"]
                           /\ started'[id] = Append(started[id], m.frame)
                           /\ tx_tasks'[id] = Append(tx_tasks[id], m.frame)
                      ELSE /\ new = [queue |-> Append(old.queue, m.frame),
                                     frame_tx |-> "None"]
                           /\ started'[id] = started[id]
                           /\ tx_tasks'[id] = tx_tasks[id]
                /\ (Dispatching("FrameTxComplete") /\ m.conn_id = id) =>
                      IF old.queue # << >>
                      THEN /\ new = [queue |-> Tail(old.queue),
                                     frame_tx |-> "None"]
                           /\ started'[id] = Append(started[id],
                                                    Head(old.queue))
                           /\ tx_tasks'[id] = Append(tx_tasks[id],
                                                     Head(old.queue))
                      ELSE /\ new = [queue |-> << >>, frame_tx |-> "Some"]
                           /\ started'[id] = received[id]
                           /\ tx_tasks'[id] = tx_tasks[id]]_vars

\* Witness: three frames arrived for a connection before any send
\* completed; the first is being sent and the other two are queued.
BurstThenDrainWitness ==
    \E c \in DOMAIN conns :
        /\ Len(received[c]) = 3 /\ Len(started[c]) = 1
        /\ tx_tasks[c] = << received[c][1] >>
        /\ conns[c] = [queue |-> SubSeq(received[c], 2, 3),
                       frame_tx |-> "None"]

\* The places that hold the send half of connection c: the slot of its
\* record, the send tasks not finished, the FrameTxComplete events waiting.
Holders(c) ==
    (IF c \in DOMAIN conns /\ conns[c].frame_tx = "Some" THEN 1 ELSE 0)
    + Len(tx_tasks[c])
    + Cardinality({ i \in 1 .. Len(chan) :
                      chan[i] = MsgFrameTxComplete(c) })

\* C16. Single ownership of the send half: it is never held in two places,
\* and for a connection in the map none of whose sends failed it is held
\* in exactly one.
SingleOwnership ==
    \A c \in Ids :
        /\ Holders(c) <= 1
        /\ (c \in DOMAIN conns /\ c \notin send_failed) => Holders(c) = 1

\* Witness: a send finished and the send half is on its way back in a
\* FrameTxComplete, while the record's slot is empty and a frame is queued.
SingleOwnershipWitness ==
    \E c \in DOMAIN conns :
        /\ c \notin send_failed
        /\ \E i \in 1 .. Len(chan) : chan[i] = MsgFrameTxComplete(c)
        /\ conns[c].frame_tx = "None" /\ tx_tasks[c] = << >>
        /\ conns[c].queue # << >>

\* C17. Queue discipline: while a connection stays in the map its queue
\* changes only in two ways: a NewFrame for it, dispatched while its slot is
\* empty, appends that frame; a FrameTxComplete for it removes the head.
QueueDiscipline ==
    [][\A id \in DOMAIN conns \cap DOMAIN conns' :
          LET q == conns[id].queue
              r == conns'[id].queue
          IN  r # q =>
                \/ /\ Dispatching("NewFrame")
                   /\ Head(chan).conn_id = id
                   /\ conns[id].frame_tx = "None"
                   /\ r = Append(q, Head(chan).frame)
                \/ /\ Dispatching("FrameTxComplete")
                   /\ Head(chan).conn_id = id
                   /\ q # << >>
                   /\ r = Tail(q)]_vars

\* Witness: a frame was queued behind a send and taken off the queue when
\* that send completed; the queue is empty again and the second send is out.
QueueDisciplineWitness ==
    \E c \in DOMAIN conns :
        /\ Len(received[c]) = 2 /\ started[c] = received[c]
        /\ conns[c] = [queue |-> << >>, frame_tx |-> "None"]
        /\ tx_tasks[c] = << received[c][2] >>

\* The frames of the NewFrame events for connection c in ch, in order.
RECURSIVE FramesWaiting(_, _)
FramesWaiting(ch, c) ==
    IF ch = << >> THEN << >>
    ELSE (IF Head(ch).type = "NewFrame" /\ Head(ch).conn_id = c
          THEN << Head(ch).frame >> ELSE << >>)
         \o FramesWaiting(Tail(ch), c)

\* C18. Per-source ordering: the frames the loop has processed for a
\* connection are, in order, the first ones its frame_handler posted, and
\* the rest wait in that order; none is processed before the NewConnection
\* that gave out the id and none is left once its ConnectionLost has been
\* processed; so every NewFrame the loop dequeues finds its id in the map.
PerSourceOrdering ==
    /\ [](\A c \in Ids :
            /\ produced[c] = received[c] \o FramesWaiting(chan, c)
            /\ (produced[c] # << >> => c < conn_count)
            /\ (c \in lost => received[c] = produced[c]))
    /\ [][Dispatching("NewFrame") =>
             Head(chan).conn_id \in DOMAIN conns]_vars

\* Witness: a frame_handler posted two frames and then ConnectionLost, and
\* the loop has processed the two frames and then removed the connection.
PerSourceOrderingWitness ==
    \E c \in lost :
        /\ Len(produced[c]) = 2 /\ received[c] = produced[c]
        /\ c \notin DOMAIN conns

\* C19. Idle implies empty queue: a record whose frame_tx is Some has an
\* empty queue; frames are queued only in records whose frame_tx is None.
IdleImpliesEmptyQueue ==
    \A c \in DOMAIN conns :
        conns[c].frame_tx = "Some" => conns[c].queue = << >>

\* Witness: three frames arrived for a connection, frames were queued
\* meanwhile, and the sender is back in the slot with the queue empty.
IdleImpliesEmptyQueueWitness ==
    \E c \in DOMAIN conns :
        /\ conns[c] = [queue |-> << >>, frame_tx |-> "Some"]
        /\ Len(received[c]) = 3 /\ started[c] = received[c]
        /\ tx_tasks[c] = << >>

\* C20. Per-connection isolation: dispatching a NewFrame, FrameTxComplete or
\* ConnectionLost of connection i leaves every other record of the map in
\* place and as it was, and leaves conn_count as it was; dispatching a
\* NewConnection leaves every record of the map in place and as it was.
Isolation ==
    [][/\ (\/ Dispatching("NewFrame")
           \/ Dispatching("FrameTxComplete")
           \/ Dispatching("ConnectionLost")) =>
             /\ \A j \in DOMAIN conns \ { Head(chan).conn_id } :
                   j \in DOMAIN conns' /\ conns'[j] = conns[j]
             /\ DOMAIN conns' \subseteq DOMAIN conns
             /\ conn_count' = conn_count
       /\ Dispatching("NewConnection") =>
             \A j \in DOMAIN conns :
                 j \in DOMAIN conns' /\ conns'[j] = conns[j]]_vars

\* Witness: two connections are in the map and a NewFrame of each has been
\* dispatched, the later one while the other's record had its sender out.
IsolationWitness ==
    \E i, j \in DOMAIN conns :
        /\ i # j
        /\ conns[i].frame_tx = "None" /\ received[i] # << >>
        /\ conns[j].frame_tx = "None" /\ received[j] # << >>

====
